---------------------------- MODULE Spec2Model ----------------------------
(***************************************************************************)
(* The resilience wrapper of the matching engine (lib/matching/safe-engine) *)
(* as a state machine: input validation, the circuit breaker, the timeout  *)
(* race and the metrics counters around the Orchestrator (matchAlbum).     *)
(*                                                                         *)
(* Two revisions of the wrapper are in the source and both are modelled;   *)
(* the variable impl says which one a behaviour runs:                      *)
(*   "global"  module-level breaker and metrics   (src/unnamed/part_013)   *)
(*   "class"   CircuitBreaker / MetricsCollector  (src/unnamed/part_008,   *)
(*             lines 215-651)                                              *)
(*                                                                         *)
(* matchAlbum is reached through a promise interface (part_013:234 calls   *)
(* .then on its result, part_008:497 hands it to Promise.race).  A call of *)
(* it either throws synchronously, or computes synchronously for some time *)
(* and returns a settled result (the engine of lib/matching is CPU-bound   *)
(* and synchronous), or returns a promise that settles later.              *)
(***************************************************************************)
EXTENDS Integers, Naturals, Sequences, FiniteSets, TLC

(***************************************************************************)
(* Program constants                                                       *)
(***************************************************************************)
CIRCUIT_FAILURE_THRESHOLD == 5
CIRCUIT_TIMEOUT == 60000
CIRCUIT_HALF_OPEN_REQUESTS == 1
maxFieldLength == 500
maxReleases == 100
timeoutMs == 5000

validFormats == {"Digital", "Vinyl", "CD", "Cassette", "Other"}

(***************************************************************************)
(* Bounds of the model                                                     *)
(***************************************************************************)
\* calls of matchAlbumSafe that may be in flight at once
MaxInFlight == 2
\* calls of matchAlbumSafe in one behaviour (metrics.totalRequests is capped)
MaxRequests == 7
\* calls of matchAlbumSafe in one behaviour that draws from every input
MaxInputRequests == 2
\* the clock stops advancing here (milliseconds)
MaxNow == 80001

(***************************************************************************)
(* JavaScript values, as far as the wrapper inspects them                  *)
(***************************************************************************)
Undefined == [t |-> "undefined"]
Num == [t |-> "number"]
Str(n) == [t |-> "string", len |-> n]
Fmt(name) == [t |-> "string", len |-> IF name = "" THEN 0 ELSE 1, name |-> name]
DateObj == [t |-> "date"]
EmptyStr == [t |-> "string", len |-> 0]

\* !v is false
Truthy(v) == /\ v.t # "undefined"
             /\ (v.t = "string" => v.len > 0)

\* typeof v === 'string'
IsString(v) == v.t = "string"

\* v || ''
OrEmpty(v) == IF Truthy(v) THEN v ELSE EmptyStr

Obj(a, ti, f, d) ==
    [kind |-> "object", artist |-> a, itemTitle |-> ti, format |-> f, purchaseDate |-> d]
\* null or undefined passed as the purchase
NullPurchase ==
    [kind |-> "null", artist |-> Undefined, itemTitle |-> Undefined,
     format |-> Undefined, purchaseDate |-> Undefined]
\* a primitive (a string, a number) passed as the purchase
PrimPurchase ==
    [kind |-> "primitive", artist |-> Undefined, itemTitle |-> Undefined,
     format |-> Undefined, purchaseDate |-> Undefined]

validPurchase == Obj(Str(11), Str(10), Fmt("Digital"), DateObj)

\* The purchases the model feeds to the wrapper.
Purchases ==
    { validPurchase,
      Obj(Str(maxFieldLength), Str(1), Fmt("Vinyl"), Undefined),
      NullPurchase,
      PrimPurchase,
      Obj(Str(4), Undefined, Undefined, Undefined),
      Obj(Num, Str(10), Fmt("CD"), DateObj),
      Obj(Str(11), Num, Fmt("CD"), DateObj),
      Obj(EmptyStr, Str(10), Fmt("CD"), DateObj),
      Obj(Str(maxFieldLength + 1), Str(10), Fmt("Digital"), DateObj),
      Obj(Str(11), Str(maxFieldLength + 1), Fmt("Cassette"), DateObj),
      Obj(Str(11), Str(10), Fmt("MP3"), DateObj),
      Obj(Str(11), Str(10), Num, DateObj),
      Obj(Str(11), Str(10), Fmt("Other"), Str(10)) }

\* A candidate list: not an array at all, or a sequence of releases of
\* which each is well-formed ("ok") or lacks its id ("noId").
NotArray == [isArray |-> FALSE, items |-> <<>>]
Arr(s) == [isArray |-> TRUE, items |-> s]
ReleaseLists ==
    { NotArray, Arr(<<>>), Arr(<<"ok">>), Arr(<<"ok", "noId">>), Arr(<<"ok", "ok">>) }


(***************************************************************************)
(* Validation                                                              *)
(***************************************************************************)
requiredFieldsOk(p) ==
    /\ Truthy(p.artist) /\ IsString(p.artist)
    /\ Truthy(p.itemTitle) /\ IsString(p.itemTitle)
    /\ Truthy(p.format) /\ IsString(p.format)

\* validatePurchase without its cap on the lengths of artist and title
validatePurchase_noLengthCap(p) ==
    /\ p.kind = "object"
    /\ requiredFieldsOk(p)
    /\ p.format.name \in validFormats

\* part_013: validatePurchase
validatePurchase(p) ==
    IF p.kind # "object" THEN FALSE
    ELSE IF ~requiredFieldsOk(p) THEN FALSE
    ELSE IF p.artist.len > maxFieldLength \/ p.itemTitle.len > maxFieldLength THEN FALSE
    ELSE IF p.format.name \notin validFormats THEN FALSE
    ELSE TRUE

\* part_008: validatePurchase, which also looks at purchaseDate
validatePurchase_class(p) ==
    IF ~validatePurchase(p) THEN FALSE
    ELSE IF p.purchaseDate.t # "undefined" /\ p.purchaseDate.t # "date" THEN FALSE
    ELSE TRUE

releaseOk(x) == x = "ok"

\* part_013: validateReleases
validateReleases(r) ==
    IF ~r.isArray THEN FALSE
    ELSE IF Len(r.items) = 0 THEN TRUE
    ELSE \A i \in 1..Len(r.items) : releaseOk(r.items[i])

\* part_008: validateReleases, which also refuses more than 1000 releases
validateReleases_class(r) ==
    IF ~r.isArray THEN FALSE
    ELSE IF Len(r.items) = 0 THEN TRUE
    ELSE IF Len(r.items) > 1000 THEN FALSE
    ELSE \A i \in 1..Len(r.items) : releaseOk(r.items[i])

\* v?.substring(0, 50) throws a TypeError when v is neither nullish nor a string
substringThrows(v) == v.t # "undefined" /\ v.t # "string"

\* part_008: the argument of logger.warn / logger.error that abbreviates
\* the purchase's artist and title throws for such a purchase
logPurchaseThrows(p) ==
    /\ p.kind # "null"
    /\ (substringThrows(p.artist) \/ substringThrows(p.itemTitle))

(***************************************************************************)
(* Results                                                                 *)
(***************************************************************************)
Null == [null |-> TRUE]

\* the "safe" MatchingResponse every fallback is
createFallbackResponse(p) ==
    [bestMatch |-> Null,
     alternatives |-> <<>>,
     searchQuery |-> [artist |-> OrEmpty(p.artist),
                      title |-> OrEmpty(p.itemTitle),
                      format |-> OrEmpty(p.format)],
     status |-> "no-match"]

MatchError(type, fb) == [tag |-> "error", type |-> type, fallback |-> fb]
Response(resp) == [tag |-> "response", response |-> resp]
\* the promise of matchAlbumSafe rejected
Rejected == [tag |-> "rejected"]
NoResult == [tag |-> "none"]

\* What the Orchestrator delivers for validated input, as far as the
\* wrapper can tell: no best match for an empty candidate list.
matchAlbum(p, limited) ==
    [bestMatch |-> IF Len(limited) = 0 THEN Null ELSE [release |-> limited[1]],
     alternatives |-> <<>>,
     searchQuery |-> [artist |-> p.artist, title |-> p.itemTitle, format |-> p.format],
     status |-> IF Len(limited) = 0 THEN "no-match" ELSE "matched"]

\* releases.slice(0, maxReleases)
limitedReleases(r) == SubSeq(r.items, 1, IF Len(r.items) < maxReleases THEN Len(r.items) ELSE maxReleases)

(***************************************************************************)
(* Circuit breaker                                                         *)
(***************************************************************************)
InitBreaker == [failures |-> 0, lastFailure |-> 0, state |-> "closed", halfOpenAttempts |-> 0]

\* part_013: checkCircuitBreaker; ok is its return value
checkCircuitBreaker(b, t) ==
    IF b.state = "open"
    THEN IF t - b.lastFailure > CIRCUIT_TIMEOUT
         THEN [ok |-> TRUE, cb |-> [b EXCEPT !.state = "half-open", !.failures = 0]]
         ELSE [ok |-> FALSE, cb |-> b]
    ELSE [ok |-> TRUE, cb |-> b]

\* part_013: recordSuccess
recordSuccess(b) ==
    IF b.state = "half-open"
    THEN [b EXCEPT !.state = "closed", !.failures = 0]
    ELSE b

\* part_013: recordFailure
recordFailure(b, t) ==
    LET b1 == [b EXCEPT !.failures = b.failures + 1, !.lastFailure = t]
    IN  IF b1.failures >= CIRCUIT_FAILURE_THRESHOLD
        THEN [b1 EXCEPT !.state = "open"]
        ELSE b1

\* part_008: CircuitBreaker.isOpen; ok is the negation of its return value
CircuitBreaker_isOpen(b, t) ==
    IF b.state = "open"
    THEN IF t - b.lastFailure > CIRCUIT_TIMEOUT
         THEN [ok |-> TRUE, cb |-> [b EXCEPT !.state = "half-open", !.halfOpenAttempts = 0]]
         ELSE [ok |-> FALSE, cb |-> b]
    ELSE IF b.state = "half-open"
    THEN [ok |-> ~(b.halfOpenAttempts >= CIRCUIT_HALF_OPEN_REQUESTS), cb |-> b]
    ELSE [ok |-> TRUE, cb |-> b]

\* part_008: CircuitBreaker.recordSuccess
CircuitBreaker_recordSuccess(b) ==
    IF b.state = "half-open"
    THEN [b EXCEPT !.state = "closed", !.failures = 0, !.halfOpenAttempts = 0]
    ELSE b

\* part_008: CircuitBreaker.recordFailure
CircuitBreaker_recordFailure(b, t) ==
    LET b1 == [b EXCEPT !.failures = b.failures + 1, !.lastFailure = t]
        b2 == IF b1.state = "half-open"
              THEN [b1 EXCEPT !.halfOpenAttempts = b1.halfOpenAttempts + 1]
              ELSE b1
    IN  IF b2.failures >= CIRCUIT_FAILURE_THRESHOLD
        THEN [b2 EXCEPT !.state = "open"]
        ELSE b2

\* the breaker operations of the revision i
Admit(i, b, t) == IF i = "global" THEN checkCircuitBreaker(b, t) ELSE CircuitBreaker_isOpen(b, t)
Success(i, b) == IF i = "global" THEN recordSuccess(b) ELSE CircuitBreaker_recordSuccess(b)
Failure(i, b, t) == IF i = "global" THEN recordFailure(b, t) ELSE CircuitBreaker_recordFailure(b, t)
PurchaseValid(i, p) == IF i = "global" THEN validatePurchase(p) ELSE validatePurchase_class(p)
ReleasesValid(i, r) == IF i = "global" THEN validateReleases(r) ELSE validateReleases_class(r)

(***************************************************************************)
(* Metrics                                                                 *)
(***************************************************************************)
InitMetrics ==
    [totalRequests |-> 0, successfulRequests |-> 0, failedRequests |-> 0,
     timeouts |-> 0, validationErrors |-> 0]


(***************************************************************************)
(* State                                                                   *)
(***************************************************************************)
VARIABLES
    impl,            \* the revision of the wrapper this behaviour runs
    now,             \* Date.now()
    circuitBreaker,  \* the shared breaker
    metrics,         \* the shared counters
    calls,           \* the calls of matchAlbumSafe in flight, and their timers
    last,            \* the call of matchAlbumSafe that returned in the step just taken
    consec,          \* failures recorded since the last successful call
    batch,           \* the run of matchAlbumBatch, if there is one
    match,           \* the call of the engine's matchAlbum, if there is one
    stringCall,      \* the call of one of the engine's string functions, if there is one
    normalizeCache   \* the engine's cache of normalized strings, oldest entry first

vars == <<impl, now, circuitBreaker, metrics, calls, last, consec, batch, match,
         stringCall, normalizeCache>>

Slots == 1..MaxInFlight

\* how one invocation of the Orchestrator behaves
Runs ==
    { [mode |-> "throw", d |-> 0],
      [mode |-> "sync", d |-> 0],
      [mode |-> "sync", d |-> 2 * timeoutMs],
      [mode |-> "async", d |-> 0] }

\* The clock advances in these steps: up to the deadline of the timers set
\* at this instant, and, when no timer is set, up to the end of the breaker's
\* cool-down or just past it.
TickSteps == {timeoutMs, CIRCUIT_TIMEOUT, CIRCUIT_TIMEOUT + 1}

NoSeen == [state |-> "closed", after |-> "closed", cooled |-> FALSE, tripped |-> FALSE, probing |-> FALSE]

\* no run of matchAlbumBatch
NoBatch ==
    [pc |-> "idle", purchases |-> <<>>, concurrency |-> 0, size |-> 0, i |-> 0, chunk |-> 0,
     items |-> <<>>, results |-> <<>>, overtaken |-> FALSE]

\* no call of a string function of the engine
NoStringCall == [engine |-> "v1", fn |-> "none", args |-> <<>>, result |-> 0]

IdleCall ==
    [pc |-> "idle", purchase |-> NullPurchase, releases |-> NotArray, t0 |-> 0,
     timer |-> "none", race |-> "none", seen |-> NoSeen]

NoCall ==
    [purchase |-> NullPurchase, releases |-> NotArray, seen |-> NoSeen, invoked |-> FALSE,
     result |-> NoResult, waited |-> 0]

\* a continuation of an awaiting call is queued: it runs before any timer
Ready(c) == calls[c].pc = "pending" /\ calls[c].race # "none"
MicrotaskQueued == \E c \in Slots : Ready(c)

\* a call admitted while the breaker was half-open has not returned yet
ProbeInFlight == \E c \in Slots : calls[c].pc = "pending" /\ calls[c].seen.after = "half-open"

Bump(m, f) == [m EXCEPT ![f] = m[f] + 1]

\* waited: the time from the call to its return
Returned(p, r, seen, invoked, result, waited) ==
    [purchase |-> p, releases |-> r, seen |-> seen, invoked |-> invoked,
     result |-> result, waited |-> waited]

Init ==
    /\ impl \in {"global", "class"}
    /\ now = 0
    /\ circuitBreaker = InitBreaker
    /\ metrics = InitMetrics
    /\ calls = [c \in Slots |-> IdleCall]
    /\ last = NoCall
    /\ consec = 0
    /\ batch = NoBatch
    /\ match = [pc |-> "idle"]
    /\ stringCall = NoStringCall
    /\ normalizeCache = <<>>

(***************************************************************************)
(* matchAlbumSafe, up to its first await or its return                     *)
(***************************************************************************)
\* the fallback of a timeout / of an open circuit
timeoutFallback(i, p) == IF i = "global" THEN Null ELSE createFallbackResponse(p)
circuitOpenFallback(i, p) == Null

\* clearTimeout on the way out of a failed race: part_008 only
timerAfterFailure(i) == IF i = "global" THEN "armed" ELSE "none"

matchAlbumSafe(c, p, r, run, budget) ==
    /\ calls[c].pc = "idle"
    /\ \A c2 \in Slots : c2 < c => calls[c2].pc # "idle"
    /\ metrics.totalRequests < budget
    /\ now + run.d <= MaxNow
    /\ LET m1 == Bump(metrics, "totalRequests")
           adm == Admit(impl, circuitBreaker, now)
           seen == [state |-> circuitBreaker.state,
                    after |-> adm.cb.state,
                    cooled |-> now - circuitBreaker.lastFailure > CIRCUIT_TIMEOUT,
                    tripped |-> consec >= CIRCUIT_FAILURE_THRESHOLD,
                    probing |-> circuitBreaker.state = "half-open" /\ ProbeInFlight]
           failed == Failure(impl, adm.cb, now)
           invalid == MatchError("invalid_data", createFallbackResponse(p))
       IN
       IF ~adm.ok THEN
           \* the breaker rejects the call
           /\ metrics' = Bump(m1, "failedRequests")
           /\ circuitBreaker' = adm.cb
           /\ last' = Returned(p, r, seen, FALSE,
                               MatchError("circuit_open", circuitOpenFallback(impl, p)),
                               0)
           /\ UNCHANGED <<impl, now, calls, consec>>
       ELSE IF ~PurchaseValid(impl, p) THEN
           IF impl = "class" /\ logPurchaseThrows(p) THEN
               \* logger.warn's argument throws; the catch block records a
               \* failure, and logger.error's argument throws again
               /\ metrics' = Bump(Bump(m1, "validationErrors"), "failedRequests")
               /\ circuitBreaker' = failed
               /\ consec' = consec + 1
               /\ last' = Returned(p, r, seen, FALSE, Rejected, 0)
               /\ UNCHANGED <<impl, now, calls>>
           ELSE
               /\ metrics' = Bump(m1, "validationErrors")
               /\ circuitBreaker' = adm.cb
               /\ last' = Returned(p, r, seen, FALSE, invalid, 0)
               /\ UNCHANGED <<impl, now, calls, consec>>
       ELSE IF ~ReleasesValid(impl, r) THEN
           /\ metrics' = Bump(m1, "validationErrors")
           /\ circuitBreaker' = adm.cb
           /\ last' = Returned(p, r, seen, FALSE, invalid, 0)
           /\ UNCHANGED <<impl, now, calls, consec>>
       ELSE IF run.mode = "throw" THEN
           \* matchAlbum throws after the timer was set
           /\ metrics' = Bump(m1, "failedRequests")
           /\ circuitBreaker' = failed
           /\ consec' = consec + 1
           /\ last' = Returned(p, r, seen, TRUE,
                               MatchError("runtime_error", createFallbackResponse(p)),
                               0)
           /\ calls' = IF timerAfterFailure(impl) = "armed"
                       THEN [calls EXCEPT ![c] = [IdleCall EXCEPT !.pc = "returned",
                                                                !.t0 = now,
                                                                !.timer = "armed"]]
                       ELSE calls
           /\ UNCHANGED <<impl, now>>
       ELSE
           \* matchAlbum returns; the call awaits the race
           /\ metrics' = m1
           /\ circuitBreaker' = adm.cb
           /\ now' = now + run.d
           /\ calls' = [calls EXCEPT ![c] =
                          [pc |-> "pending", purchase |-> p, releases |-> r, t0 |-> now,
                           timer |-> "armed",
                           race |-> IF run.mode = "sync" THEN "value" ELSE "none",
                           seen |-> seen]]
           /\ last' = NoCall
           /\ UNCHANGED <<impl, consec>>

(***************************************************************************)
(* The Orchestrator's promise settles                                      *)
(***************************************************************************)
OrchestratorSettles(c, ok) ==
    /\ calls[c].pc = "pending"
    /\ calls[c].race = "none"
    /\ calls' = [calls EXCEPT ![c].race = IF ok THEN "value" ELSE "error"]
    /\ last' = NoCall
    /\ UNCHANGED <<impl, now, circuitBreaker, metrics, consec>>

(***************************************************************************)
(* The timer's callback                                                    *)
(***************************************************************************)
timeoutCallback(c) ==
    /\ calls[c].timer = "armed"
    /\ now >= calls[c].t0 + timeoutMs
    /\ ~MicrotaskQueued
    /\ metrics' = Bump(metrics, "timeouts")
    /\ calls' = IF calls[c].pc = "pending"
                THEN [calls EXCEPT ![c].timer = "none", ![c].race = "timeout"]
                ELSE [calls EXCEPT ![c] = IdleCall]
    /\ last' = NoCall
    /\ UNCHANGED <<impl, now, circuitBreaker, consec>>

(***************************************************************************)
(* matchAlbumSafe, after the await of the race                             *)
(***************************************************************************)
matchAlbumSafeResumes(c) ==
    /\ Ready(c)
    /\ LET k == calls[c]
           ok == Success(impl, circuitBreaker)
           failed == Failure(impl, circuitBreaker, now)
       IN
       IF k.race = "value" THEN
           /\ circuitBreaker' = ok
           /\ metrics' = Bump(metrics, "successfulRequests")
           /\ consec' = 0
           /\ last' = Returned(k.purchase, k.releases, k.seen, TRUE,
                               Response(matchAlbum(k.purchase, limitedReleases(k.releases))),
                               now - k.t0)
           /\ calls' = [calls EXCEPT ![c] = IdleCall]
       ELSE
           /\ circuitBreaker' = failed
           /\ metrics' = Bump(metrics, "failedRequests")
           /\ consec' = consec + 1
           /\ last' = Returned(k.purchase, k.releases, k.seen, TRUE,
                               IF k.race = "timeout"
                               THEN MatchError("timeout", timeoutFallback(impl, k.purchase))
                               ELSE MatchError("runtime_error", createFallbackResponse(k.purchase)),
                               now - k.t0)
           /\ calls' = IF k.timer = "armed" /\ timerAfterFailure(impl) = "armed"
                       THEN [calls EXCEPT ![c] = [IdleCall EXCEPT !.pc = "returned",
                                                                !.t0 = k.t0,
                                                                !.timer = "armed"]]
                       ELSE [calls EXCEPT ![c] = IdleCall]
    /\ UNCHANGED <<impl, now>>

(***************************************************************************)
(* Time passes: no continuation is queued and no timer is overdue          *)
(***************************************************************************)
TimerArmed == \E c \in Slots : calls[c].timer = "armed"

Tick(d) ==
    /\ now + d <= MaxNow
    /\ ~MicrotaskQueued
    /\ \A c \in Slots : calls[c].timer = "armed" => calls[c].t0 + timeoutMs >= now + d
    /\ d = timeoutMs => TimerArmed
    /\ d # timeoutMs => circuitBreaker.state = "open"
    /\ now' = now + d
    /\ last' = NoCall
    /\ UNCHANGED <<impl, circuitBreaker, metrics, calls, consec>>

\* The breaker and the race: valid input, many calls.
CorePurchases == {validPurchase}
CoreLists == {Arr(<<"ok">>)}

CoreRuns == {run \in Runs : run.d = 0}

Next ==
    \/ \E c \in Slots, p \in CorePurchases, r \in CoreLists, run \in CoreRuns :
          matchAlbumSafe(c, p, r, run, MaxRequests) /\ UNCHANGED <<batch, match, stringCall, normalizeCache>>
    \/ \E c \in Slots, ok \in BOOLEAN : OrchestratorSettles(c, ok) /\ UNCHANGED <<batch, match, stringCall, normalizeCache>>
    \/ \E c \in Slots : timeoutCallback(c) /\ UNCHANGED <<batch, match, stringCall, normalizeCache>>
    \/ \E c \in Slots : matchAlbumSafeResumes(c) /\ UNCHANGED <<batch, match, stringCall, normalizeCache>>
    \/ \E d \in TickSteps : Tick(d) /\ UNCHANGED <<batch, match, stringCall, normalizeCache>>

Spec == Init /\ [][Next]_vars

\* Every input and every way the Orchestrator runs: a caller that awaits
\* each call before it makes the next one, few calls.
NextInputs ==
    \/ \E c \in Slots, p \in Purchases, r \in ReleaseLists, run \in Runs :
          /\ \A c2 \in Slots : calls[c2].pc # "pending"
          /\ matchAlbumSafe(c, p, r, run, MaxInputRequests)
          /\ UNCHANGED <<batch, match, stringCall, normalizeCache>>
    \/ \E c \in Slots, ok \in BOOLEAN : OrchestratorSettles(c, ok) /\ UNCHANGED <<batch, match, stringCall, normalizeCache>>
    \/ \E c \in Slots : timeoutCallback(c) /\ UNCHANGED <<batch, match, stringCall, normalizeCache>>
    \/ \E c \in Slots : matchAlbumSafeResumes(c) /\ UNCHANGED <<batch, match, stringCall, normalizeCache>>
    \/ \E d \in TickSteps : Tick(d) /\ UNCHANGED <<batch, match, stringCall, normalizeCache>>

SpecInputs == Init /\ [][NextInputs]_vars

(***************************************************************************)
(* matchAlbumBatch                                                         *)
(*                                                                         *)
(* The two collaborators of a batch are inputs of it: searchFunction       *)
(* (fetchCandidates), which resolves to a candidate list or rejects, and   *)
(* the Orchestrator.  A batch input says how they behave:                  *)
(*   "any"   each search resolves or rejects, each Orchestrator run is     *)
(*           any of BatchRuns                                              *)
(*   "sync"  each search resolves to a valid list and the Orchestrator     *)
(*           computes synchronously: it returns or throws                  *)
(*   "down"  every search rejects                                          *)
(* part_008 refuses a batch of more than 1000 purchases; no batch of the   *)
(* model is that long.                                                     *)
(***************************************************************************)
defaultConcurrency == 3
maxConcurrency == 10
chunkDelay == 100

\* purchases in a batch whose collaborators behave in any way
MaxBatch == 3

Min(a, b) == IF a < b THEN a ELSE b
Max(a, b) == IF a > b THEN a ELSE b

\* options.concurrency || 3, clamped to 1..10 by part_008 only; opt = 0
\* stands for an option that is absent or 0
concurrencyOf(i, opt) ==
    LET c == IF opt = 0 THEN defaultConcurrency ELSE opt
    IN  IF i = "global" THEN c ELSE Max(1, Min(c, maxConcurrency))

\* one purchase's pipeline: searchFunction, then matchAlbumSafe
NewItem ==
    [pc |-> "waiting", slot |-> 0, result |-> NoResult, fetched |-> 0, invoked |-> 0,
     fetch |-> "none", releases |-> NotArray, run |-> "none", chunk |-> 0]

Uniform(p, n) == [k \in 1..n |-> p]

BatchLists == {Arr(<<"ok">>), NotArray}
BatchRuns == {run \in Runs : run.d = 0}

BatchInputs ==
    { [purchases |-> Uniform(validPurchase, n), concurrency |-> opt, collaborators |-> "any"] :
          n \in 0..MaxBatch, opt \in {0, 1, 2} }
    \cup
    { [purchases |-> <<validPurchase, odd>>, concurrency |-> 0, collaborators |-> "any"] :
          odd \in {Obj(Num, Str(10), Fmt("CD"), DateObj), NullPurchase} }
    \cup
    { [purchases |-> Uniform(validPurchase, CIRCUIT_FAILURE_THRESHOLD + 1),
       concurrency |-> 1, collaborators |-> "sync"],
      [purchases |-> Uniform(validPurchase, maxConcurrency + 1),
       concurrency |-> maxConcurrency + 1, collaborators |-> "down"] }

\* purchases.slice(i, i + concurrency), as the indices of its elements
chunkOf(b) == (b.i + 1)..Min(b.i + b.size, Len(b.purchases))

\* a round of the loop that also runs the pipelines of the purchases before
\* the chunk once more
startChunk_again(b, i0) ==
    [b EXCEPT !.pc = "chunk", !.i = i0, !.chunk = b.chunk + 1,
              !.items = [k \in DOMAIN b.items |->
                            IF k <= i0 + b.size
                            THEN [b.items[k] EXCEPT !.pc = "searching",
                                                    !.fetched = b.items[k].fetched + 1,
                                                    !.chunk = b.chunk + 1]
                            ELSE b.items[k]]]

\* chunk.map(async (purchase) => ...): every pipeline of the chunk runs up to
\* its await of searchFunction(purchase)
startChunk(b, i0) ==
    [b EXCEPT !.pc = "chunk", !.i = i0, !.chunk = b.chunk + 1,
              !.items = [k \in DOMAIN b.items |->
                            IF k > i0 /\ k <= i0 + b.size
                            THEN [b.items[k] EXCEPT !.pc = "searching",
                                                    !.fetched = b.items[k].fetched + 1,
                                                    !.chunk = b.chunk + 1]
                            ELSE b.items[k]]]

\* the fallback built by the catch block of a pipeline
batchFallback(i, p) ==
    IF i = "global"
    THEN [bestMatch |-> Null,
          alternatives |-> <<>>,
          searchQuery |-> [artist |-> p.artist, title |-> p.itemTitle, format |-> p.format],
          status |-> "no-match"]
    ELSE createFallbackResponse(p)

\* the catch block of a pipeline throws itself: purchase.artist of a null
\* purchase, and in part_008 artist?.substring of a non-string
batchCatchThrows(i, p) ==
    \/ p.kind = "null"
    \/ i = "class" /\ (substringThrows(p.artist) \/ substringThrows(p.itemTitle))

\* the pipeline of purchase k has settled; overtaken: some pipeline has
\* settled before a pipeline of an earlier purchase
itemSettles(b, k, pc, result) ==
    [b EXCEPT !.overtaken = b.overtaken \/ \E m \in 1..(k - 1) :
                                             b.items[m].pc \in {"searching", "matching"},
              !.items[k].pc = pc,
              !.items[k].slot = 0,
              !.items[k].result = result]

\* the pipeline's catch block, reached with an error
itemCatches(b, k) ==
    IF batchCatchThrows(impl, b.purchases[k])
    THEN itemSettles(b, k, "rejected", Rejected)
    ELSE itemSettles(b, k, "done",
                     MatchError("runtime_error", batchFallback(impl, b.purchases[k])))

\* the results of the chunk, last promise first
chunkResults_reversed(b) ==
    [j \in 1..Cardinality(chunkOf(b)) |->
        b.items[b.i + Cardinality(chunkOf(b)) + 1 - j].result]

\* Promise.all(chunkPromises): the results of the chunk in the order of its
\* promises
chunkResults(b) ==
    [j \in 1..Cardinality(chunkOf(b)) |-> b.items[b.i + j].result]

\* the call of matchAlbumBatch, up to its first await
matchAlbumBatch(in) ==
    /\ batch.pc = "idle"
    /\ LET b0 == [NoBatch EXCEPT !.purchases = in.purchases,
                                 !.concurrency = in.concurrency,
                                 !.size = concurrencyOf(impl, in.concurrency),
                                 !.items = [k \in 1..Len(in.purchases) |-> NewItem]]
           b1 == [pc |-> b0.pc, purchases |-> b0.purchases, concurrency |-> b0.concurrency,
                  size |-> b0.size, i |-> b0.i, chunk |-> b0.chunk, items |-> b0.items,
                  results |-> b0.results, overtaken |-> b0.overtaken,
                  collaborators |-> in.collaborators]
       IN  batch' = IF Len(in.purchases) = 0
                    THEN [b1 EXCEPT !.pc = "returned"]
                    ELSE startChunk(b1, 0)
    /\ last' = NoCall
    /\ UNCHANGED <<impl, now, circuitBreaker, metrics, calls, consec>>

\* searchFunction(purchase) rejects: the pipeline's catch block
searchFunctionRejects(k) ==
    /\ batch.pc # "idle"
    /\ k \in DOMAIN batch.items
    /\ batch.items[k].pc = "searching"
    /\ batch.collaborators \in {"any", "down"}
    /\ batch' = itemCatches([batch EXCEPT !.items[k].fetch = "rejected"], k)
    /\ last' = NoCall
    /\ UNCHANGED <<impl, now, circuitBreaker, metrics, calls, consec>>

\* searchFunction(purchase) resolves to r: the pipeline calls matchAlbumSafe,
\* which returns at once or awaits its race
searchFunctionResolves(k, c, r, run) ==
    /\ batch.pc # "idle"
    /\ k \in DOMAIN batch.items
    /\ batch.items[k].pc = "searching"
    /\ batch.collaborators \in {"any", "sync"}
    /\ batch.collaborators = "sync" => (r = Arr(<<"ok">>) /\ run.mode # "async")
    /\ matchAlbumSafe(c, batch.purchases[k], r, run, MaxRequests)
    /\ LET b1 == [batch EXCEPT !.items[k].fetch = "resolved",
                               !.items[k].releases = r,
                               !.items[k].run = run.mode]
       IN  batch' =
             IF last'.result.tag = "none"
             THEN [b1 EXCEPT !.items[k].pc = "matching",
                             !.items[k].slot = c,
                             !.items[k].invoked = b1.items[k].invoked + 1]
             ELSE IF last'.result.tag = "rejected"
             THEN itemCatches(b1, k)
             ELSE itemSettles([b1 EXCEPT !.items[k].invoked =
                                   b1.items[k].invoked + IF last'.invoked THEN 1 ELSE 0],
                              k, "done", last'.result)

\* matchAlbumSafe resumes after its race and the pipeline returns its result
itemResumes(c) ==
    /\ matchAlbumSafeResumes(c)
    /\ batch' = IF \E k \in DOMAIN batch.items :
                      batch.items[k].pc = "matching" /\ batch.items[k].slot = c
                THEN LET k == CHOOSE k \in DOMAIN batch.items :
                                 batch.items[k].pc = "matching" /\ batch.items[k].slot = c
                     IN  itemSettles(batch, k, "done", last'.result)
                ELSE batch

\* Promise.all has settled: one of the chunk's promises rejected, or all of
\* them are fulfilled
chunkSettled ==
    /\ batch.pc = "chunk"
    /\ \/ \E k \in chunkOf(batch) : batch.items[k].pc = "rejected"
       \/ \A k \in chunkOf(batch) : batch.items[k].pc = "done"

\* matchAlbumBatch after await Promise.all(chunkPromises): the loop's next
\* round (after the delay, in part_008) or the return
matchAlbumBatchResumes ==
    /\ chunkSettled
    /\ batch' =
         IF \E k \in chunkOf(batch) : batch.items[k].pc = "rejected"
         THEN [batch EXCEPT !.pc = "rejected"]
         ELSE LET b1 == [batch EXCEPT !.results = batch.results \o chunkResults(batch)]
              IN  IF b1.i + b1.size < Len(b1.purchases)
                  THEN IF impl = "global"
                       THEN startChunk(b1, b1.i + b1.size)
                       ELSE [b1 EXCEPT !.pc = "delay"]
                  ELSE [b1 EXCEPT !.pc = "returned"]
    /\ last' = NoCall
    /\ UNCHANGED <<impl, now, circuitBreaker, metrics, calls, consec>>

\* part_008: the delay between two chunks is over
chunkDelayElapses ==
    /\ batch.pc = "delay"
    /\ now + chunkDelay <= MaxNow
    /\ now' = now + chunkDelay
    /\ batch' = startChunk(batch, batch.i + batch.size)
    /\ last' = NoCall
    /\ UNCHANGED <<impl, circuitBreaker, metrics, calls, consec>>

NextBatch ==
    \/ \E in \in BatchInputs : matchAlbumBatch(in) /\ UNCHANGED <<match, stringCall, normalizeCache>>
    \/ \E k \in 1..(maxConcurrency + 1) : searchFunctionRejects(k) /\ UNCHANGED <<match, stringCall, normalizeCache>>
    \/ \E k \in 1..(maxConcurrency + 1), c \in Slots, r \in BatchLists, run \in BatchRuns :
          searchFunctionResolves(k, c, r, run) /\ UNCHANGED <<match, stringCall, normalizeCache>>
    \/ \E c \in Slots, ok \in BOOLEAN : OrchestratorSettles(c, ok) /\ UNCHANGED <<batch, match, stringCall, normalizeCache>>
    \/ \E c \in Slots : timeoutCallback(c) /\ ~chunkSettled /\ UNCHANGED <<batch, match, stringCall, normalizeCache>>
    \/ \E c \in Slots : itemResumes(c) /\ UNCHANGED <<match, stringCall, normalizeCache>>
    \/ matchAlbumBatchResumes /\ UNCHANGED <<match, stringCall, normalizeCache>>
    \/ chunkDelayElapses /\ UNCHANGED <<match, stringCall, normalizeCache>>
    \/ \E d \in TickSteps : Tick(d) /\ ~chunkSettled /\ batch.pc # "delay" /\ UNCHANGED <<batch, match, stringCall, normalizeCache>>

SpecBatch == Init /\ [][NextBatch]_vars

(***************************************************************************)
(* The matching engine: calculateMatchConfidence and matchAlbum            *)
(*                                                                         *)
(* Two revisions are in the source; match.engine says which one runs:      *)
(*   "v1"  lib/matching/engine, the one safe-engine imports                *)
(*         (src/lib/matching/formats.ts, lines 76-435, with utils.ts)      *)
(*   "v2"  src/lib/matching/engine-v2.ts                                   *)
(*                                                                         *)
(* A string is its text after normalization (a sequence of characters, 0   *)
(* being the space), a flag for a spelling that normalization removes      *)
(* (upper case), and the text of a trailing "(...)" edition marker.  The   *)
(* releases of the model all carry artists_sort and a title without        *)
(* " - "; the formats of a release are summed up by what formatMatches-    *)
(* Discogs finds for the purchase's format.                                *)
(***************************************************************************)
ARTIST_WEIGHT == 6
TITLE_WEIGHT == 4
AUTO_MATCH_THRESHOLD == 95
REVIEW_THRESHOLD == 70

\* candidate releases in one call of matchAlbum
MaxCandidates == 3

\* Math.round(n / d), d > 0
Round(n, d) == (2 * n + d) \div (2 * d)

Raw(text, caps, edition) == [text |-> text, caps |-> caps, edition |-> edition]

\* a word of ten letters, and the same word with its first k letters changed
Word == [i \in 1..10 |-> i]
Changed(k) == [i \in 1..10 |-> IF i <= k THEN 11 ELSE i]
\* "a a", "a b"
Twice == <<1, 0, 1>>
Pair == <<1, 0, 2>>
\* the texts of two edition markers
Deluxe == <<21, 22>>
Remaster == <<21, 23>>

normalizeString(s) ==
    IF s.edition = <<>> THEN s.text ELSE s.text \o <<0>> \o s.edition

\* one row of the matrix of calculateLevenshteinDistance, left to right
RECURSIVE levRow(_, _, _, _)
levRow(prev, ch, a, row) ==
    IF Len(row) = Len(a) + 1 THEN row
    ELSE LET j == Len(row)
             cell == IF ch = a[j] THEN prev[j]
                     ELSE Min(Min(prev[j] + 1, row[j] + 1), prev[j + 1] + 1)
         IN  levRow(prev, ch, a, Append(row, cell))

\* the rows of the matrix, top down; row i starts with matrix[i][0] = i
RECURSIVE levRows(_, _, _)
levRows(a, b, prev) ==
    LET i == prev[1] + 1
    IN  IF i > Len(b) THEN prev
        ELSE levRows(a, b, levRow(prev, b[i], a, <<i>>))

calculateLevenshteinDistance(a, b) ==
    levRows(a, b, [j \in 1..(Len(a) + 1) |-> j - 1])[Len(a) + 1]

calculateStringSimilarity(a, b) ==
    IF a = b THEN 100
    ELSE LET normalizedA == normalizeString(a)
             normalizedB == normalizeString(b)
             distance == calculateLevenshteinDistance(normalizedA, normalizedB)
             maxLength == Max(Len(normalizedA), Len(normalizedB))
         IN  IF normalizedA = normalizedB THEN 98
             ELSE IF maxLength = 0 THEN 100
             ELSE Max(0, Round((maxLength - distance) * 100, maxLength))

\* normalizeString(s).split(' ').filter(t => t.length > 0)
RECURSIVE splitTokens(_, _, _)
splitTokens(text, i, cur) ==
    IF i > Len(text) THEN (IF cur = <<>> THEN <<>> ELSE <<cur>>)
    ELSE IF text[i] = 0
         THEN (IF cur = <<>> THEN <<>> ELSE <<cur>>) \o splitTokens(text, i + 1, <<>>)
         ELSE splitTokens(text, i + 1, Append(cur, text[i]))

tokensOf(s) == splitTokens(normalizeString(s), 1, <<>>)
tokenSet(toks) == {toks[i] : i \in 1..Len(toks)}
freq(toks, tok) == Cardinality({i \in 1..Len(toks) : toks[i] = tok})

RECURSIVE SumOver(_, _, _, _)
\* the sum over the tokens of S of min(count in A, count in B)
SumOver(S, tokensA, tokensB, acc) ==
    IF S = {} THEN acc
    ELSE LET tok == CHOOSE t \in S : TRUE
         IN  SumOver(S \ {tok}, tokensA, tokensB,
                     acc + Min(freq(tokensA, tok), freq(tokensB, tok)))

\* v1: matches counted with multiplicity over the number of distinct tokens
calculateTokenSimilarity(a, b) ==
    LET tokensA == tokensOf(a)
        tokensB == tokensOf(b)
        matchCount == SumOver(tokenSet(tokensA), tokensA, tokensB, 0)
        totalUnique == Cardinality(tokenSet(tokensA) \cup tokenSet(tokensB))
    IN  IF Len(tokensA) = 0 \/ Len(tokensB) = 0 THEN 0
        ELSE IF totalUnique > 0 THEN Round(matchCount * 100, totalUnique) ELSE 0

\* v2: twice the matches over the tokens of a plus those of b not in a
calculateTokenSimilarity_v2(a, b) ==
    LET tokensA == tokensOf(a)
        tokensB == tokensOf(b)
        matchCount == SumOver(tokenSet(tokensA), tokensA, tokensB, 0)
        totalTokens == Len(tokensA)
                       + Cardinality({i \in 1..Len(tokensB) : tokensB[i] \notin tokenSet(tokensA)})
    IN  IF Len(tokensA) = 0 \/ Len(tokensB) = 0 THEN 0
        ELSE IF totalTokens > 0 THEN Round(matchCount * 2 * 100, totalTokens) ELSE 0

\* utils.ts: the title without its edition marker, and the marker
extractEditionInfo(title) ==
    [baseTitle |-> Raw(title.text, title.caps, <<>>),
     edition |-> IF title.edition = <<>> THEN Null ELSE Raw(title.edition, title.caps, <<>>)]

calculateEditionAwareSimilarity(title1, title2) ==
    LET info1 == extractEditionInfo(title1)
        info2 == extractEditionInfo(title2)
        baseSimilarity == calculateStringSimilarity(info1.baseTitle, info2.baseTitle)
        editionBonus ==
            IF info1.edition # Null /\ info2.edition # Null
            THEN Round(calculateStringSimilarity(info1.edition, info2.edition), 10)
            ELSE IF info1.edition = Null /\ info2.edition = Null THEN 5
            ELSE -2
    IN  baseSimilarity + editionBonus

\* v1 (formats.ts)
getFormatBonus(bandcampFormat, discogsFormats) ==
    IF bandcampFormat = "Digital" THEN 0
    ELSE IF discogsFormats = "none" THEN 0
    ELSE IF discogsFormats = "match" THEN 5 ELSE -5

getFormatBonus_v2(bandcampFormat, discogsFormats, strictness) ==
    IF strictness = "any" \/ discogsFormats = "none" THEN 0
    ELSE IF bandcampFormat = "Digital" THEN 0
    ELSE IF strictness = "strict"
         THEN (IF discogsFormats = "match" THEN 10 ELSE -10)
         ELSE (IF discogsFormats = "match" THEN 5 ELSE -2)

\* year 0: the release has no year
calculateYearBonus(purchase, release) ==
    IF release.year = 0 THEN 0
    ELSE IF purchase.year - release.year <= 2 THEN 2
    ELSE IF release.year > purchase.year THEN -5
    ELSE 0

\* Math.round of the sum, left as it is
clampConfidence_none(tenths) == Round(tenths, 10)

\* Math.min(100, Math.max(0, Math.round(baseScore + bonus))), the sum in tenths
clampConfidence(tenths) == Min(100, Max(0, Round(tenths, 10)))

matchTypeOf(exact, artistSimilarity, titleSimilarity) ==
    IF exact THEN "exact"
    ELSE IF artistSimilarity >= 98 /\ titleSimilarity >= 98 THEN "normalized"
    ELSE "fuzzy"

\* index: the place of the release in discogsReleases
calculateMatchConfidence(purchase, release, options, index) ==
    LET artistSimilarity ==
            Max(calculateStringSimilarity(purchase.artist, release.artists_sort),
                calculateTokenSimilarity(purchase.artist, release.artists_sort))
        titleSimilarity ==
            Max(Max(calculateStringSimilarity(purchase.itemTitle, release.title),
                    calculateTokenSimilarity(purchase.itemTitle, release.title)),
                calculateEditionAwareSimilarity(purchase.itemTitle, release.title))
        formatBonus ==
            IF options.formatStrictness = "any" THEN 0
            ELSE getFormatBonus(purchase.format, release.formats)
    IN  [confidence |-> clampConfidence(ARTIST_WEIGHT * artistSimilarity
                                        + TITLE_WEIGHT * titleSimilarity
                                        + 10 * formatBonus),
         release |-> release,
         matchType |-> matchTypeOf(purchase.artist = release.artists_sort
                                      /\ purchase.itemTitle = release.title,
                                   artistSimilarity, titleSimilarity),
         breakdown |-> [artistScore |-> artistSimilarity,
                        titleScore |-> titleSimilarity,
                        formatBonus |-> formatBonus],
         index |-> index]

calculateMatchConfidence_v2(purchase, release, options, index) ==
    LET artistSimilarity ==
            Max(calculateStringSimilarity(purchase.artist, release.artists_sort),
                calculateTokenSimilarity_v2(purchase.artist, release.artists_sort))
        titleSimilarity ==
            Max(calculateStringSimilarity(purchase.itemTitle, release.title),
                calculateTokenSimilarity_v2(purchase.itemTitle, release.title))
        formatBonus ==
            getFormatBonus_v2(purchase.format, release.formats, options.formatStrictness)
        yearBonus == calculateYearBonus(purchase, release)
    IN  [confidence |-> clampConfidence(ARTIST_WEIGHT * artistSimilarity
                                        + TITLE_WEIGHT * titleSimilarity
                                        + 10 * (formatBonus + yearBonus)),
         release |-> release,
         matchType |-> matchTypeOf(purchase.artist = release.artists_sort
                                      /\ purchase.itemTitle = release.title,
                                   artistSimilarity, titleSimilarity),
         breakdown |-> [artistScore |-> artistSimilarity,
                        titleScore |-> titleSimilarity,
                        formatBonus |-> formatBonus + yearBonus],
         index |-> index]

typeOrder(matchType) ==
    IF matchType = "exact" THEN 3 ELSE IF matchType = "normalized" THEN 2 ELSE 1

\* the comparator handed to sort: negative when a goes first
compareMatches(v, a, b) ==
    IF v = "v1" THEN b.confidence - a.confidence
    ELSE IF b.confidence # a.confidence THEN b.confidence - a.confidence
    ELSE IF a.matchType # b.matchType THEN typeOrder(b.matchType) - typeOrder(a.matchType)
    ELSE b.release.year - a.release.year

\* Array.prototype.sort is stable: x goes before the first entry that the
\* comparator puts after it
RECURSIVE insertMatch(_, _, _)
insertMatch(v, sorted, x) ==
    IF sorted = <<>> THEN <<x>>
    ELSE IF compareMatches(v, Head(sorted), x) > 0 THEN <<x>> \o sorted
    ELSE <<Head(sorted)>> \o insertMatch(v, Tail(sorted), x)

RECURSIVE sortMatches(_, _, _)
sortMatches(v, ms, sorted) ==
    IF ms = <<>> THEN sorted
    ELSE sortMatches(v, Tail(ms), insertMatch(v, sorted, Head(ms)))

\* every release scored, in the order of discogsReleases
scoreAll(v, purchase, releases, options) ==
    [i \in 1..Len(releases) |->
        IF v = "v1" THEN calculateMatchConfidence(purchase, releases[i], options, i)
        ELSE calculateMatchConfidence_v2(purchase, releases[i], options, i)]

\* a best match below the automatic threshold is a review, however low
statusOf_noFloor(bestMatch) ==
    IF bestMatch = Null THEN "no-match"
    ELSE IF bestMatch.confidence >= AUTO_MATCH_THRESHOLD THEN "matched"
    ELSE "review"

statusOf(bestMatch) ==
    IF bestMatch = Null \/ bestMatch.confidence < REVIEW_THRESHOLD THEN "no-match"
    ELSE IF bestMatch.confidence >= AUTO_MATCH_THRESHOLD THEN "matched"
    ELSE "review"

\* every match after the best one
alternativesOf_uncapped(matches, options) ==
    IF options.includeAlternatives THEN SubSeq(matches, 2, Len(matches)) ELSE <<>>

\* matches.slice(1, maxAlternatives + 1)
alternativesOf(matches, options) ==
    IF options.includeAlternatives
    THEN SubSeq(matches, 2, Min(Len(matches), options.maxAlternatives + 1))
    ELSE <<>>

\* matchAlbum of the revision v
engineMatchAlbum(v, purchase, releases, options) ==
    LET scored == scoreAll(v, purchase, releases, options)
        matches == sortMatches(v, SelectSeq(scored, LAMBDA m : m.confidence >= options.minConfidence), <<>>)
        bestMatch == IF Len(matches) = 0 THEN Null ELSE matches[1]
    IN  [bestMatch |-> bestMatch,
         alternatives |-> alternativesOf(matches, options),
         searchQuery |-> [artist |-> purchase.artist, title |-> purchase.itemTitle,
                          format |-> purchase.format],
         status |-> statusOf(bestMatch)]

DEFAULT_OPTIONS ==
    [includeAlternatives |-> TRUE, maxAlternatives |-> 3, formatStrictness |-> "loose",
     minConfidence |-> 0]

EnginePurchase(artist, title, format) ==
    [artist |-> artist, itemTitle |-> title, format |-> format, year |-> 2024]
Release(artist, title, formats, year) ==
    [artists_sort |-> artist, title |-> title, formats |-> formats, year |-> year]

vinylPurchase == EnginePurchase(Raw(Word, FALSE, <<>>), Raw(Word, FALSE, <<>>), "Vinyl")

\* One purchase against one release: every spelling, format and year.
ScoredPurchases ==
    { vinylPurchase,
      EnginePurchase(Raw(Twice, FALSE, <<>>), Raw(Word, FALSE, Deluxe), "Digital") }
ScoredArtists ==
    { Raw(Changed(k), FALSE, <<>>) : k \in {0, 1, 2, 3, 5} }
    \cup { Raw(Word, TRUE, <<>>), Raw(Twice, FALSE, <<>>), Raw(Pair, FALSE, <<>>) }
ScoredTitles ==
    { Raw(Changed(k), FALSE, <<>>) : k \in {0, 1, 2, 3, 5, 10} }
    \cup { Raw(Word, TRUE, <<>>), Raw(Word, FALSE, Deluxe), Raw(Word, FALSE, Remaster) }
ScoredReleases ==
    { Release(a, t, f, y) : a \in ScoredArtists, t \in ScoredTitles,
                            f \in {"none", "match", "mismatch"}, y \in {0, 2023} }
ScoredOptions ==
    { [DEFAULT_OPTIONS EXCEPT !.formatStrictness = s] : s \in {"loose", "strict", "any"} }

\* One purchase against a list of releases that tie, or fall on either side
\* of the two thresholds.
RankedReleases ==
    { Release(Raw(Word, FALSE, <<>>), Raw(Word, FALSE, <<>>), "none", 2010),
      Release(Raw(Word, FALSE, <<>>), Raw(Word, FALSE, <<>>), "none", 2023),
      Release(Raw(Word, TRUE, <<>>), Raw(Word, TRUE, <<>>), "match", 2010),
      Release(Raw(Changed(1), FALSE, <<>>), Raw(Changed(2), FALSE, <<>>), "none", 0),
      Release(Raw(Changed(1), FALSE, <<>>), Raw(Changed(2), FALSE, <<>>), "match", 0),
      Release(Raw(Changed(5), FALSE, <<>>), Raw(Changed(2), FALSE, <<>>), "none", 2010) }
RECURSIVE ListsOf(_, _)
ListsOf(S, n) ==
    IF n = 0 THEN {<<>>}
    ELSE ListsOf(S, n - 1) \cup {Append(l, x) : l \in {m \in ListsOf(S, n - 1) : Len(m) = n - 1}, x \in S}
RankedOptions ==
    { DEFAULT_OPTIONS,
      [DEFAULT_OPTIONS EXCEPT !.includeAlternatives = FALSE],
      [DEFAULT_OPTIONS EXCEPT !.maxAlternatives = 0],
      [DEFAULT_OPTIONS EXCEPT !.maxAlternatives = 1],
      [DEFAULT_OPTIONS EXCEPT !.minConfidence = 80],
      [DEFAULT_OPTIONS EXCEPT !.maxAlternatives = 1, !.minConfidence = 80] }

NoMatch ==
    [pc |-> "idle", engine |-> "v1", purchase |-> vinylPurchase, releases |-> <<>>,
     options |-> DEFAULT_OPTIONS, scored |-> <<>>, response |-> Null]

EngineInputs ==
    { [NoMatch EXCEPT !.pc = "called", !.engine = v, !.purchase = p, !.releases = <<r>>,
                      !.options = o] :
          v \in {"v1", "v2"}, p \in ScoredPurchases, r \in ScoredReleases, o \in ScoredOptions }
    \cup
    { [NoMatch EXCEPT !.pc = "called", !.engine = v, !.releases = l, !.options = o] :
          v \in {"v1", "v2"}, l \in ListsOf(RankedReleases, MaxCandidates), o \in RankedOptions }

\* the engine is the same under both revisions of the wrapper
InitEngine ==
    /\ impl = "global"
    /\ now = 0
    /\ circuitBreaker = InitBreaker
    /\ metrics = InitMetrics
    /\ calls = [c \in Slots |-> IdleCall]
    /\ last = NoCall
    /\ consec = 0
    /\ batch = NoBatch
    /\ match \in EngineInputs
    /\ stringCall = NoStringCall
    /\ normalizeCache = <<>>

\* matchAlbum runs: it is synchronous
matchAlbumRuns ==
    /\ match.pc = "called"
    /\ match' = [match EXCEPT
                   !.pc = "returned",
                   !.scored = scoreAll(match.engine, match.purchase, match.releases,
                                       match.options),
                   !.response = engineMatchAlbum(match.engine, match.purchase,
                                                 match.releases, match.options)]
    /\ UNCHANGED <<impl, now, circuitBreaker, metrics, calls, last, consec, batch,
                   stringCall, normalizeCache>>

NextEngine == matchAlbumRuns

SpecEngine == InitEngine /\ [][NextEngine]_vars

(***************************************************************************)
(* Properties                                                              *)
(***************************************************************************)
HasReturned == last.result.tag # "none"
IsError(type) == last.result.tag = "error" /\ last.result.type = type
IsResponse == last.result.tag = "response"
\* the call was refused by the breaker and the Orchestrator left alone
RejectedByBreaker == IsError("circuit_open") /\ ~last.invoked
\* a fallback MatchOutcome: status no-match, no best match, no alternatives
IsFallback(fb) ==
    /\ fb # Null
    /\ fb.status = "no-match"
    /\ fb.bestMatch = Null
    /\ fb.alternatives = <<>>

\* What the specification calls invalid input: a purchase that is no object,
\* lacks or mistypes a required field, is too long or names no known
\* format; a candidate list that is no list or holds a malformed release.
InvalidPurchase(p) ==
    \/ p.kind # "object"
    \/ \E v \in {p.artist, p.itemTitle, p.format} : v.t # "string" \/ v.len = 0
    \/ p.artist.len > maxFieldLength
    \/ p.itemTitle.len > maxFieldLength
    \/ p.format.name \notin validFormats
InvalidReleases(r) ==
    \/ ~r.isArray
    \/ \E i \in 1..Len(r.items) : r.items[i] # "ok"

\* C1: a call made after five or more consecutive failed calls, before the
\* cool-down past the last failure has elapsed, returns circuit_open and
\* does not invoke the Orchestrator.
C1_TripRejects ==
    (HasReturned /\ last.seen.tripped /\ ~last.seen.cooled) => RejectedByBreaker

\* C2: the breaker goes from closed to open only at the end of a run of
\* five failures with no successful call in between.
C2_ConsecutiveOnly ==
    [][(circuitBreaker.state = "closed" /\ circuitBreaker'.state = "open")
          => consec' >= CIRCUIT_FAILURE_THRESHOLD]_vars

\* C3: a call that arrives while the breaker is half-open and a probe is
\* still in flight is rejected with circuit_open and does not invoke the
\* Orchestrator.
C3_SingleProbe ==
    /\ (HasReturned /\ last.seen.probing) => RejectedByBreaker
    /\ \A c \in Slots : calls[c].pc = "pending" => ~calls[c].seen.probing

\* C4: a valid call made once the breaker is open and the cool-down has
\* elapsed goes through to the Orchestrator, and when it succeeds the
\* breaker is closed with a failure count of 0.
C4_Recovery ==
    (/\ HasReturned
     /\ last.seen.state = "open" /\ last.seen.cooled
     /\ ~InvalidPurchase(last.purchase) /\ ~InvalidReleases(last.releases))
    => /\ last.invoked
       /\ IsResponse => (circuitBreaker.state = "closed" /\ circuitBreaker.failures = 0)

\* C5: a failure recorded while the breaker is half-open reopens it, with
\* that failure as its last failure, and a call made while the breaker is
\* open and not cooled down is rejected.
C5_ProbeFailureReopens ==
    /\ [][(circuitBreaker.state = "half-open" /\ consec' = consec + 1)
            => (circuitBreaker'.state = "open" /\ circuitBreaker'.lastFailure = now')]_vars
    /\ []((HasReturned /\ last.seen.state = "open" /\ ~last.seen.cooled) => RejectedByBreaker)

\* C6: a call whose purchase is invalid returns invalid_data with a
\* fallback, in every state of the breaker.
C6_InvalidPurchase ==
    (HasReturned /\ InvalidPurchase(last.purchase))
    => (IsError("invalid_data") /\ IsFallback(last.result.fallback))

\* C7: every StructuredError carries a fallback MatchOutcome.
C7_ErrorsCarryFallback ==
    last.result.tag = "error" => IsFallback(last.result.fallback)


\* C8: a call whose purchase or candidate list fails validation does not
\* invoke the Orchestrator.
C8_InvalidNeverInvokes ==
    (HasReturned /\ (InvalidPurchase(last.purchase) \/ InvalidReleases(last.releases)))
    => ~last.invoked
C8_Witness ==
    /\ IsError("invalid_data")
    /\ ~InvalidPurchase(last.purchase)
    /\ InvalidReleases(last.releases)
    /\ last.releases.isArray
    /\ ~last.invoked

\* C9: a call that invoked the Orchestrator returns within the budget, and
\* one whose Orchestrator had not delivered when the budget expired returns
\* timeout.
C9_TimeoutBoundsWait ==
    (HasReturned /\ last.invoked)
    => /\ last.waited <= timeoutMs
       /\ last.waited > timeoutMs => IsError("timeout")

\* C10: the promise of matchAlbumSafe never rejects, and a call whose
\* Orchestrator threw returns runtime_error with a fallback.
C10_NeverRejects ==
    /\ last.result.tag # "rejected"
    /\ (HasReturned /\ last.invoked /\ ~IsResponse /\ ~IsError("timeout"))
          => (IsError("runtime_error") /\ IsFallback(last.result.fallback))

(***************************************************************************)
(* Properties of matchAlbumBatch                                           *)
(***************************************************************************)
Items == DOMAIN batch.items
Started(k) == batch.items[k].pc # "waiting"
Settled(k) == batch.items[k].pc \in {"done", "rejected"}
InFlight == {k \in Items : batch.items[k].pc \in {"searching", "matching"}}
ItemIsError(k, type) ==
    batch.items[k].result.tag = "error" /\ batch.items[k].result.type = type
\* the chunk size the specification allows for the batch's option
ChunkLimit ==
    IF batch.concurrency = 0 THEN 3
    ELSE IF batch.concurrency > 10 THEN 10 ELSE batch.concurrency
\* purchase k went through a lookup that resolved to a valid list and an
\* Orchestrator run that returns a MatchOutcome
WouldSucceed(k) ==
    /\ batch.items[k].pc = "done"
    /\ batch.items[k].fetch = "resolved"
    /\ ~InvalidPurchase(batch.purchases[k])
    /\ ~InvalidReleases(batch.items[k].releases)
    /\ batch.items[k].run = "sync"

\* C11: the batch does not reject; a purchase whose lookup rejected gets a
\* runtime_error with a fallback; and when lookups are all that failed,
\* every purchase whose pipeline succeeds gets its MatchOutcome.
C11_BatchIsolation ==
    /\ batch.pc # "rejected"
    /\ \A k \in Items :
          (batch.items[k].fetch = "rejected")
          => /\ ItemIsError(k, "runtime_error")
             /\ IsFallback(batch.items[k].result.fallback)
    /\ (\A m \in Items : batch.items[m].run \in {"none", "sync"})
          => \A k \in Items : WouldSucceed(k) => batch.items[k].result.tag = "response"

\* C12: a purchase of a later chunk whose pipeline succeeds on its own gets
\* its MatchOutcome, whatever failed in the chunks before it.
C12_LaterChunksUnaffected ==
    \A k \in Items :
        (batch.items[k].chunk > 1 /\ WouldSucceed(k))
        => batch.items[k].result.tag = "response"

\* C13: at most ChunkLimit pipelines are in flight (3 by default, never more
\* than 10), the chunks are consecutive runs of that many purchases, and no
\* pipeline of a chunk starts before those of the chunks before it settled.
C13_BoundedConcurrency ==
    /\ Cardinality(InFlight) <= ChunkLimit
    /\ \A k \in Items : Started(k) => batch.items[k].chunk = ((k - 1) \div ChunkLimit) + 1
    /\ \A j, k \in Items :
          (Started(j) /\ Started(k) /\ batch.items[j].chunk < batch.items[k].chunk)
          => Settled(j)

EngineReturned == match.pc = "returned"
\* the MatchCandidates that calculateMatchConfidence produced in the call
Scored == {match.scored[i] : i \in 1..Len(match.scored)}
\* those at or above minConfidence
Passing == {m \in Scored : m.confidence >= match.options.minConfidence}
\* the ranking the response shows: the best match, then the alternatives
Shown ==
    IF match.response.bestMatch = Null THEN <<>>
    ELSE <<match.response.bestMatch>> \o match.response.alternatives
RankOf(matchType) ==
    IF matchType = "exact" THEN 3 ELSE IF matchType = "normalized" THEN 2 ELSE 1
\* a ranks strictly before b: confidence, then classification, then year
RanksBefore(a, b) ==
    \/ a.confidence > b.confidence
    \/ a.confidence = b.confidence /\ RankOf(a.matchType) > RankOf(b.matchType)
    \/ /\ a.confidence = b.confidence
       /\ a.matchType = b.matchType
       /\ a.release.year > b.release.year

C17_AlternativesBounded ==
    EngineReturned
    => LET best == match.response.bestMatch
           alts == match.response.alternatives
       IN  /\ Len(alts) <= match.options.maxAlternatives
           /\ ~match.options.includeAlternatives => alts = <<>>
           /\ \A i, j \in 1..Len(alts) : i < j => alts[i].confidence >= alts[j].confidence
           /\ \A i \in 1..Len(alts) : /\ best # Null
                                      /\ alts[i].confidence <= best.confidence
                                      /\ alts[i].index # best.index
C17_Witness ==
    /\ EngineReturned
    /\ match.options.maxAlternatives = 1
    /\ Cardinality(Passing) = 3
    /\ Len(match.response.alternatives) = 1
    /\ match.response.alternatives[1].confidence < match.response.bestMatch.confidence
    /\ C17_AlternativesBounded

\* C18: every confidence that calculateMatchConfidence produces is an
\* integer from 0 to 100.
C18_ConfidenceRange ==
    \A m \in Scored : m.confidence \in 0..100
C18_Witness ==
    /\ EngineReturned
    /\ \E m \in Scored :
          /\ m.confidence = 100
          /\ ARTIST_WEIGHT * m.breakdown.artistScore + TITLE_WEIGHT * m.breakdown.titleScore
                + 10 * m.breakdown.formatBonus > 1000
    /\ C18_ConfidenceRange

\* C19: the artist score and the title score of every MatchCandidate lie
\* between 0 and 100.
C19_ScoreRange ==
    \A m \in Scored : /\ m.breakdown.artistScore \in 0..100
                     /\ m.breakdown.titleScore \in 0..100

\* C20: the best match and the alternatives are candidates that reach
\* minConfidence, in the order confidence, then classification rank, then
\* release year, each descending, and no candidate left out ranks before
\* one that is shown.
C20_Ranking ==
    EngineReturned
    => /\ Passing # {} => match.response.bestMatch # Null
       /\ \A i \in 1..Len(Shown) : Shown[i] \in Passing
       /\ \A i, j \in 1..Len(Shown) : i < j => ~RanksBefore(Shown[j], Shown[i])
       /\ \A m \in Passing :
             (\A i \in 1..Len(Shown) : Shown[i].index # m.index)
             => \A i \in 1..Len(Shown) : ~RanksBefore(m, Shown[i])

(***************************************************************************)
(* Properties of the wrapper's counters and of the breaker's frame         *)
(***************************************************************************)
\* C29: metrics.timeouts goes up only by one, by the timer of a call that
\* is still awaiting its race and then returns timeout; and timeouts is at
\* most failedRequests whenever no call is in flight.
C29_TimeoutsCountTimedOutCalls ==
    /\ [][metrics'.timeouts # metrics.timeouts
            => /\ metrics'.timeouts = metrics.timeouts + 1
               /\ \E c \in Slots : /\ calls[c].pc = "pending"
                                    /\ calls'[c].race = "timeout"]_vars
    /\ []((\A c \in Slots : calls[c].pc # "pending")
             => metrics.timeouts <= metrics.failedRequests)

\* C30: a call that returns without having reached the Orchestrator leaves
\* the breaker's failure count no higher than it was and its last-failure
\* timestamp as it was.
C30_EarlyReturnsSpareBreaker ==
    [][(last'.result.tag # "none" /\ ~last'.invoked)
          => /\ circuitBreaker'.failures <= circuitBreaker.failures
             /\ circuitBreaker'.lastFailure = circuitBreaker.lastFailure]_vars

(***************************************************************************)
(* Properties of the engine's classification                               *)
(***************************************************************************)
\* the purchase and the release of m have the same artist and the same
\* title, as given / after normalizeString
SameRaw(m) ==
    /\ match.purchase.artist = m.release.artists_sort
    /\ match.purchase.itemTitle = m.release.title
SameNormalized(m) ==
    /\ normalizeString(match.purchase.artist) = normalizeString(m.release.artists_sort)
    /\ normalizeString(match.purchase.itemTitle) = normalizeString(m.release.title)

\* C26: a candidate is exact only when artist and title are identical as
\* given, normalized only when they are identical after normalizeString,
\* and fuzzy in every other case.
C26_Classification ==
    \A m \in Scored :
        /\ m.matchType = "exact" => SameRaw(m)
        /\ m.matchType = "normalized" => SameNormalized(m)
        /\ m.matchType = "fuzzy" <=> (~SameRaw(m) /\ ~SameNormalized(m))

(***************************************************************************)
(* The candidate cap of matchAlbumSafe                                     *)
(*                                                                         *)
(* A valid purchase with candidate lists around and beyond maxReleases.    *)
(***************************************************************************)
\* n well-formed releases
OkList(n) == Arr([i \in 1..n |-> "ok"])
\* n well-formed releases and one that lacks its id
OkThenNoId(n) == Arr([i \in 1..(n + 1) |-> IF i <= n THEN "ok" ELSE "noId"])

CapLists ==
    { OkList(maxReleases), OkList(maxReleases + 1), OkList(150), OkList(1001),
      OkThenNoId(maxReleases - 1), OkThenNoId(maxReleases) }

NextCap ==
    \/ \E c \in Slots, p \in CorePurchases, r \in CapLists, run \in CoreRuns :
          /\ \A c2 \in Slots : calls[c2].pc # "pending"
          /\ matchAlbumSafe(c, p, r, run, MaxInputRequests)
          /\ UNCHANGED <<batch, match, stringCall, normalizeCache>>
    \/ \E c \in Slots, ok \in BOOLEAN : OrchestratorSettles(c, ok) /\ UNCHANGED <<batch, match, stringCall, normalizeCache>>
    \/ \E c \in Slots : timeoutCallback(c) /\ UNCHANGED <<batch, match, stringCall, normalizeCache>>
    \/ \E c \in Slots : matchAlbumSafeResumes(c) /\ UNCHANGED <<batch, match, stringCall, normalizeCache>>
    \/ \E d \in TickSteps : Tick(d) /\ UNCHANGED <<batch, match, stringCall, normalizeCache>>

SpecCap == Init /\ [][NextCap]_vars

\* the first maxReleases candidates of the call that returned
FirstCandidates == SubSeq(last.releases.items, 1, maxReleases)

\* C21: a call with more than 100 candidates returns what it would return
\* for the first 100 of them alone: those, when they are valid, go to the
\* Orchestrator, and a MatchOutcome is the one of the first 100.
C21_CandidateCap ==
    (/\ HasReturned
     /\ last.releases.isArray
     /\ Len(last.releases.items) > maxReleases
     /\ ~IsError("circuit_open"))
    => /\ ~InvalidReleases(Arr(FirstCandidates)) => (last.invoked /\ ~IsError("invalid_data"))
       /\ IsResponse => last.result.response = matchAlbum(last.purchase, FirstCandidates)

(***************************************************************************)
(* The engine's string functions, character by character                   *)
(*                                                                         *)
(* Here a string is the sequence of its UTF-16 code units: 32 is the       *)
(* space, 38 '&', 45 '-', 46 '.', 48..57 the digits, 65..90 and 97..122    *)
(* the letters.  stringCall.engine says which revision is called.          *)
(***************************************************************************)
CACHE_MAX_SIZE == 1000

\* pieces in a text handed to normalizeString
MaxPieces == 3
\* characters in a string handed to calculateLevenshteinDistance
MaxLen == 3
\* tokens in a string handed to calculateTokenSimilarity
MaxTokens == 2
\* format descriptors of a release
MaxFormats == 2
\* different texts handed to normalizeString in one behaviour
MaxTexts == 1002

\* \s and \w of a regular expression
IsSpace(c) == c \in {9, 10, 11, 12, 13, 32, 160}
IsWord(c) == c \in (48..57) \cup (65..90) \cup (97..122) \cup {95}

RECURSIVE Concat(_)
Concat(ss) == IF ss = <<>> THEN <<>> ELSE Head(ss) \o Concat(Tail(ss))

\* String.prototype.trim
trim(s) ==
    LET keep == {i \in 1..Len(s) : ~IsSpace(s[i])}
    IN  IF keep = {} THEN <<>>
        ELSE SubSeq(s, CHOOSE i \in keep : \A j \in keep : i <= j,
                       CHOOSE i \in keep : \A j \in keep : i >= j)

\* replace(/\s+/g, ' ')
collapseSpaces(s) ==
    Concat([i \in 1..Len(s) |->
              IF ~IsSpace(s[i]) THEN <<s[i]>>
              ELSE IF i > 1 /\ IsSpace(s[i - 1]) THEN <<>> ELSE <<32>>])

\* toLowerCase, normalize('NFD') without the combining marks, and the
\* single-character replacements, for the Latin letters, dashes and the
\* ellipsis
foldChar(v, c) ==
    LET l == IF c \in (65..90) \cup (192..214) \cup (216..222) THEN c + 32
             ELSE IF c = 338 THEN 339 ELSE c
    IN  IF l \in 224..229 THEN <<97>>
        ELSE IF l = 231 THEN <<99>>
        ELSE IF l \in 232..235 THEN <<101>>
        ELSE IF l \in 236..239 THEN <<105>>
        ELSE IF l = 241 THEN <<110>>
        ELSE IF l \in 242..246 THEN <<111>>
        ELSE IF l \in 249..252 THEN <<117>>
        ELSE IF l \in {253, 255} THEN <<121>>
        ELSE IF l = 248 THEN <<111>>
        ELSE IF l = 230 THEN <<97, 101>>
        ELSE IF l = 339 THEN <<111, 101>>
        ELSE IF l = 223 /\ v = "v2" THEN <<115, 115>>
        ELSE IF l = 322 /\ v = "v2" THEN <<108>>
        ELSE IF l = 273 /\ v = "v2" THEN <<100>>
        ELSE IF l \in {8211, 8212} THEN <<45>>
        ELSE IF l = 8230 THEN <<46, 46, 46>>
        ELSE <<l>>

\* the length of the match of a pattern of normalizeString at i, 0 when
\* there is none:  "whole" \bpat\b,  "abbr" \bpat\.?\s,  "char" pat
matchLength(s, i, step) ==
    LET n == Len(step.pat)
        j == i + n
        here == /\ j - 1 <= Len(s)
                /\ SubSeq(s, i, j - 1) = step.pat
        boundary == i = 1 \/ ~IsWord(s[i - 1])
    IN  IF ~here THEN 0
        ELSE IF step.kind = "char" THEN n
        ELSE IF ~boundary THEN 0
        ELSE IF step.kind = "whole"
             THEN (IF j > Len(s) \/ ~IsWord(s[j]) THEN n ELSE 0)
        ELSE IF j + 1 <= Len(s) /\ s[j] = 46 /\ IsSpace(s[j + 1]) THEN n + 2
        ELSE IF j <= Len(s) /\ IsSpace(s[j]) THEN n + 1
        ELSE 0

\* String.prototype.replace with a global pattern: the matches from left to
\* right, each one starting where the one before it ended or later
RECURSIVE replaceFrom(_, _, _, _)
replaceFrom(s, lens, rep, i) ==
    IF i > Len(s) THEN <<>>
    ELSE IF lens[i] > 0 THEN rep \o replaceFrom(s, lens, rep, i + lens[i])
    ELSE <<s[i]>> \o replaceFrom(s, lens, rep, i + 1)

\* one replace after the other, in the order of steps; no pattern matches
\* in the empty string
RECURSIVE replaceAll(_, _)
replaceAll(s, steps) ==
    IF s = <<>> \/ steps = <<>> THEN s
    ELSE LET step == Head(steps)
             lens == [i \in 1..Len(s) |-> matchLength(s, i, step)]
         IN  replaceAll(replaceFrom(s, lens, step.rep, 1), Tail(steps))

RECURSIVE decimal(_)
\* String(n)
decimal(n) == IF n < 10 THEN <<48 + n>> ELSE decimal(n \div 10) \o <<48 + (n % 10)>>

\* v1: XX -> 20, XIX -> 19, ..., II -> 2, I -> 1, the longer numerals first
romanNumerals ==
    LET I == 73
        V == 86
        X == 88
        roman == << <<X, X>>, <<X, I, X>>, <<X, V, I, I, I>>, <<X, V, I, I>>, <<X, V, I>>,
                    <<X, V>>, <<X, I, V>>, <<X, I, I, I>>, <<X, I, I>>, <<X, I>>,
                    <<X>>, <<I, X>>, <<V, I, I, I>>, <<V, I, I>>, <<V, I>>,
                    <<V>>, <<I, V>>, <<I, I, I>>, <<I, I>>, <<I>> >>
    IN  [k \in 1..20 |-> [kind |-> "whole", pat |-> roman[k], rep |-> decimal(21 - k)]]

\* feat, (v2: ft,) &, vol, pt, ep (, v2: no)
abbreviations(v) ==
    LET abbr(pat, rep) == [kind |-> "abbr", pat |-> pat, rep |-> rep \o <<32>>]
        feat == abbr(<<102, 101, 97, 116>>, <<102, 101, 97, 116, 117, 114, 105, 110, 103>>)
        ft == abbr(<<102, 116>>, <<102, 101, 97, 116, 117, 114, 105, 110, 103>>)
        amp == [kind |-> "char", pat |-> <<38>>, rep |-> <<32, 97, 110, 100, 32>>]
        vol == abbr(<<118, 111, 108>>, <<118, 111, 108, 117, 109, 101>>)
        pt == abbr(<<112, 116>>, <<112, 97, 114, 116>>)
        ep == abbr(<<101, 112>>, <<101, 112>>)
        no == abbr(<<110, 111>>, <<110, 117, 109, 98, 101, 114>>)
    IN  IF v = "v1" THEN <<feat, amp, vol, pt, ep>>
        ELSE <<feat, ft, amp, vol, pt, ep, no>>

\* replace(/^(the|a|an)\s+/i, '') on a lower-case string
removeArticle(s) ==
    LET startsWith(w) == /\ Len(s) > Len(w)
                         /\ SubSeq(s, 1, Len(w)) = w
                         /\ IsSpace(s[Len(w) + 1])
        n == IF startsWith(<<116, 104, 101>>) THEN 3
             ELSE IF startsWith(<<97>>) THEN 1
             ELSE IF startsWith(<<97, 110>>) THEN 2
             ELSE 0
        rest == {i \in (n + 1)..Len(s) : ~IsSpace(s[i])}
    IN  IF n = 0 THEN s
        ELSE IF rest = {} THEN <<>>
        ELSE SubSeq(s, CHOOSE i \in rest : \A j \in rest : i <= j, Len(s))

DefaultFlags == [removeArticles |-> TRUE, expandAbbreviations |-> TRUE]

\* normalizeString between the look-up in the cache and the store into it
normalized(v, str, options) ==
    LET trimmed == IF v = "v1" THEN replaceAll(trim(str), romanNumerals) ELSE str
        folded == Concat([i \in 1..Len(trimmed) |-> foldChar(v, trimmed[i])])
        spaced == collapseSpaces(IF v = "v1" THEN folded ELSE trim(folded))
        expanded == IF options.expandAbbreviations THEN replaceAll(spaced, abbreviations(v))
                    ELSE spaced
        words == SelectSeq(expanded, LAMBDA c : IsWord(c) \/ IsSpace(c) \/ c = 45)
        unhyphened == IF v = "v1" THEN SelectSeq(words, LAMBDA c : c # 45)
                      ELSE [i \in 1..Len(words) |-> IF words[i] = 45 THEN 32 ELSE words[i]]
        bare == IF options.removeArticles THEN removeArticle(unhyphened) ELSE unhyphened
    IN  trim(collapseSpaces(bare))

\* the look-up of key in the cache and the store of value under it; value
\* is what normalizeString computes when it does not return from the cache
memoize(v, cache, key, value) ==
    LET at == {i \in 1..Len(cache) : cache[i].key = key}
        hit == IF v = "v1" THEN at # {} ELSE \E i \in at : cache[i].value # <<>>
        room == IF v = "v1"
                THEN (IF Len(cache) >= CACHE_MAX_SIZE THEN Tail(cache) ELSE cache)
                ELSE (IF Len(cache) > 1000 THEN <<>> ELSE cache)
        entry == [key |-> key, value |-> value]
    IN  IF hit THEN [value |-> cache[CHOOSE i \in at : TRUE].value, cache |-> cache]
        ELSE [value |-> value,
              cache |-> IF \E i \in 1..Len(room) : room[i].key = key
                        THEN [i \in 1..Len(room) |-> IF room[i].key = key THEN entry ELSE room[i]]
                        ELSE Append(room, entry)]

\* normalizeString: its return value and the cache it leaves
normalizeString_cached(v, cache, str, options) ==
    IF v = "v1" /\ str = <<>> THEN [value |-> <<>>, cache |-> cache]
    ELSE memoize(v, cache, [str |-> str, options |-> options], normalized(v, str, options))

\* a[i - 1] === b[j - 1] ? 0 : 1, with every pair of characters a mismatch
editCost_always(x, y) == 1

\* a[i - 1] === b[j - 1] ? 0 : 1
editCost(x, y) == IF x = y THEN 0 ELSE 1

\* v2: currentRow for the character ch of a, from currentRow[0] on
RECURSIVE levRow_v2(_, _, _, _)
levRow_v2(previousRow, ch, b, currentRow) ==
    IF Len(currentRow) = Len(b) + 1 THEN currentRow
    ELSE LET j == Len(currentRow)
             cell == Min(Min(previousRow[j + 1] + 1, currentRow[j] + 1),
                         previousRow[j] + editCost(ch, b[j]))
         IN  levRow_v2(previousRow, ch, b, Append(currentRow, cell))

\* v2: the two rows, swapped after each character of a
RECURSIVE levRows_v2(_, _, _, _)
levRows_v2(a, b, i, previousRow) ==
    IF i > Len(a) THEN previousRow
    ELSE levRows_v2(a, b, i + 1, levRow_v2(previousRow, a[i], b, <<i>>))

calculateLevenshteinDistance_v2(a, b) ==
    IF a = b THEN 0
    ELSE IF Len(a) = 0 THEN Len(b)
    ELSE IF Len(b) = 0 THEN Len(a)
    ELSE levRows_v2(a, b, 1, [j \in 1..(Len(b) + 1) |-> j - 1])[Len(b) + 1]

\* formats.ts: the descriptor names that go with each purchase format
discogsFormatMap ==
    [f \in validFormats |->
        IF f = "Vinyl"
        THEN {"LP", "Album", "12\"", "10\"", "7\"", "Single", "EP", "Mini-Album",
              "Maxi-Single", "Flexi-disc", "Picture Disc", "Test Pressing",
              "White Label", "Promo", "Reissue", "Repress", "Compilation"}
        ELSE IF f = "CD"
        THEN {"CD", "CDr", "CD-ROM", "HDCD", "MiniCD", "CD+DVD", "CD+Blu-ray",
              "Enhanced", "Single", "EP", "Album", "Compilation", "Box Set"}
        ELSE IF f = "Cassette"
        THEN {"Cassette", "Cass", "Mixtape", "Demo", "Promo", "Album",
              "Single", "EP", "Compilation"}
        ELSE IF f = "Digital"
        THEN {"File", "MP3", "FLAC", "WAV", "AIFF", "AAC", "OGG", "WMA",
              "Digital", "Download", "Streaming"}
        ELSE {"DVD", "Blu-ray", "VHS", "Betamax", "Laserdisc", "MiniDisc",
              "8-Track", "Reel-To-Reel", "DAT", "DCC", "SACD", "DVD-Audio"}]

\* The names of the format descriptors of the model are "Vinyl", "lp",
\* "CDr", "Cassette" and "File"; each with the names of discogsFormatMap
\* that it includes when both are in lower case.
includedIn(name) ==
    IF name = "lp" THEN {"LP"}
    ELSE IF name = "CDr" THEN {"CD", "CDr"}
    ELSE IF name = "Cassette" THEN {"Cassette", "Cass"}
    ELSE IF name = "File" THEN {"File"}
    ELSE {}

formatMatchesDiscogs(bandcampFormat, discogsFormat) ==
    IF bandcampFormat = "Digital" THEN TRUE
    ELSE \E format \in discogsFormatMap[bandcampFormat] : format \in includedIn(discogsFormat)

\* what getFormatBonus finds in the descriptors of a release
formatsFound(bandcampFormat, discogsFormats) ==
    IF Len(discogsFormats) = 0 THEN "none"
    ELSE IF \E i \in 1..Len(discogsFormats) :
               formatMatchesDiscogs(bandcampFormat, discogsFormats[i])
    THEN "match"
    ELSE "mismatch"

\* the format bonus that calculateMatchConfidence adds
formatBonus(v, bandcampFormat, discogsFormats, strictness) ==
    IF v = "v1"
    THEN (IF strictness = "any" THEN 0
          ELSE getFormatBonus(bandcampFormat, formatsFound(bandcampFormat, discogsFormats)))
    ELSE getFormatBonus_v2(bandcampFormat, formatsFound(bandcampFormat, discogsFormats),
                           strictness)

\* the cache after normalizeString has run on each of strs, in their order
RECURSIVE cacheAfter(_, _, _)
cacheAfter(v, cache, strs) ==
    IF strs = <<>> THEN cache
    ELSE LET str == Head(strs)
             next == IF v = "v1" /\ str.text = <<>> /\ str.edition = <<>> THEN cache
                     ELSE memoize(v, cache, [str |-> str, options |-> DefaultFlags],
                                  normalizeString(str)).cache
         IN  cacheAfter(v, next, Tail(strs))

(***************************************************************************)
(* Calls of the string functions                                           *)
(***************************************************************************)
\* the sequences of at most n members of S, concatenated / joined by a space
RECURSIVE TextsOf(_, _)
TextsOf(S, n) ==
    IF n = 0 THEN {<<>>}
    ELSE LET shorter == TextsOf(S, n - 1)
         IN  shorter \cup {t \o p : t \in shorter, p \in S}
RECURSIVE TokenTextsOf(_, _)
TokenTextsOf(S, n) ==
    IF n = 0 THEN {<<>>}
    ELSE LET shorter == TokenTextsOf(S, n - 1)
         IN  shorter \cup S \cup {t \o <<0>> \o p : t \in shorter \ {<<>>}, p \in S}

\* texts of the pieces "The ", "a", " ", "x", "&", "-", "II", "pt"
NormalizeTexts ==
    TextsOf({ <<84, 104, 101, 32>>, <<97>>, <<32>>, <<120>>, <<38>>, <<45>>, <<73, 73>>,
              <<112, 116>> },
            MaxPieces)
NormalizeOptions ==
    { DefaultFlags, [removeArticles |-> FALSE, expandAbbreviations |-> FALSE] }
\* texts of the tokens "a" and "b"
TokenTexts == { Raw(t, FALSE, <<>>) : t \in TokenTextsOf({<<1>>, <<2>>}, MaxTokens) }
\* strings of the letters a and b
LevenshteinTexts == TextsOf({<<97>>, <<98>>}, MaxLen)
FormatLists ==
    TextsOf({<<name>> : name \in {"Vinyl", "lp", "CDr", "Cassette", "File"}}, MaxFormats)

InitStrings ==
    /\ impl = "global"
    /\ now = 0
    /\ circuitBreaker = InitBreaker
    /\ metrics = InitMetrics
    /\ calls = [c \in Slots |-> IdleCall]
    /\ last = NoCall
    /\ consec = 0
    /\ batch = NoBatch
    /\ match = [pc |-> "idle"]
    /\ stringCall \in {[NoStringCall EXCEPT !.engine = v] : v \in {"v1", "v2"}}
    /\ normalizeCache = <<>>

Returns(fn, args, result) ==
    /\ stringCall' = [stringCall EXCEPT !.fn = fn, !.args = args, !.result = result]
    /\ UNCHANGED <<impl, now, circuitBreaker, metrics, calls, last, consec, batch, match>>

normalizeStringCalled(str, options) ==
    LET r == normalizeString_cached(stringCall.engine, normalizeCache, str, options)
    IN  /\ Returns("normalizeString", <<str, options>>, r.value)
        /\ normalizeCache' = r.cache

calculateTokenSimilarityCalled(a, b) ==
    /\ Returns("calculateTokenSimilarity", <<a, b>>,
               IF stringCall.engine = "v1" THEN calculateTokenSimilarity(a, b)
               ELSE calculateTokenSimilarity_v2(a, b))
    /\ normalizeCache' = cacheAfter(stringCall.engine, normalizeCache, <<a, b>>)

calculateLevenshteinDistanceCalled(a, b) ==
    /\ Returns("calculateLevenshteinDistance", <<a, b>>,
               IF stringCall.engine = "v1" THEN calculateLevenshteinDistance(a, b)
               ELSE calculateLevenshteinDistance_v2(a, b))
    /\ UNCHANGED normalizeCache

formatBonusComputed(bandcampFormat, discogsFormats, strictness) ==
    /\ Returns("getFormatBonus", <<bandcampFormat, discogsFormats, strictness>>,
               formatBonus(stringCall.engine, bandcampFormat, discogsFormats, strictness))
    /\ UNCHANGED normalizeCache

\* One call of one function, with every input.
NextStrings ==
    \/ \E str \in NormalizeTexts, options \in NormalizeOptions :
          stringCall.fn = "none" /\ normalizeStringCalled(str, options)
    \/ \E a, b \in TokenTexts :
          stringCall.fn = "none" /\ calculateTokenSimilarityCalled(a, b)
    \/ \E a, b \in LevenshteinTexts :
          stringCall.fn = "none" /\ calculateLevenshteinDistanceCalled(a, b)
    \/ \E f \in validFormats, l \in FormatLists, s \in {"loose", "strict", "any"} :
          stringCall.fn = "none" /\ formatBonusComputed(f, l, s)

SpecStrings == InitStrings /\ [][NextStrings]_vars

RECURSIVE numberOf(_)
\* Number(str) of a string of digits
numberOf(str) ==
    IF str = <<>> THEN 0
    ELSE 10 * numberOf(SubSeq(str, 1, Len(str) - 1)) + (str[Len(str)] - 48)

\* Many calls of normalizeString: a caller that normalizes "-", then "0",
\* "1", "2", ..., and may normalize each of them again at once.
NextCache ==
    LET texts == IF stringCall.fn = "none" \/ stringCall.args[1] = <<45>>
                 THEN {<<45>>, decimal(0)}
                 ELSE LET n == numberOf(stringCall.args[1])
                      IN  {decimal(n)} \cup (IF n + 1 < MaxTexts THEN {decimal(n + 1)} ELSE {})
    IN  \E str \in texts : normalizeStringCalled(str, DefaultFlags)

SpecCache == InitStrings /\ [][NextCache]_vars

(***************************************************************************)
(* Properties of the string functions                                      *)
(***************************************************************************)
Called(fn) == stringCall.fn = fn
\* the function of the revision that was called
TokenSimilarityOf(a, b) ==
    IF stringCall.engine = "v1" THEN calculateTokenSimilarity(a, b)
    ELSE calculateTokenSimilarity_v2(a, b)

\* C22: under the default flags, normalizeString returns its own result
\* when it is called on that result.
C22_NormalizeIdempotent ==
    (Called("normalizeString") /\ stringCall.args[2] = DefaultFlags)
    => normalizeString_cached(stringCall.engine, normalizeCache, stringCall.result,
                              DefaultFlags).value = stringCall.result

C24_TokenFormula ==
    LET tokensA == tokensOf(stringCall.args[1])
        tokensB == tokensOf(stringCall.args[2])
        M == SumOver(tokenSet(tokensA) \cup tokenSet(tokensB), tokensA, tokensB, 0)
        T == Len(tokensA) + Len(tokensB)
    IN  (Called("calculateTokenSimilarity") /\ Len(tokensA) > 0 /\ Len(tokensB) > 0)
        => /\ stringCall.result = Round(100 * 2 * M, T)
           /\ stringCall.result <= 100
           /\ (\A t \in tokenSet(tokensA) \cup tokenSet(tokensB) :
                  freq(tokensA, t) = freq(tokensB, t)) => stringCall.result = 100

\* C25: the format bonus is 0 for a Digital purchase, for the strictness
\* any and for a release without format descriptors; otherwise +5 on a
\* match and -2 on a mismatch when loose, +10 and -10 when strict, a match
\* being a descriptor whose name includes a name allowed for the format.
C25_FormatBonusTable ==
    Called("getFormatBonus")
    => LET bandcampFormat == stringCall.args[1]
           discogsFormats == stringCall.args[2]
           strictness == stringCall.args[3]
           hasMatch == \E i \in 1..Len(discogsFormats) :
                           includedIn(discogsFormats[i]) \cap discogsFormatMap[bandcampFormat] # {}
       IN  stringCall.result =
               IF bandcampFormat = "Digital" \/ strictness = "any" \/ discogsFormats = <<>> THEN 0
               ELSE IF strictness = "loose" THEN (IF hasMatch THEN 5 ELSE -2)
               ELSE (IF hasMatch THEN 10 ELSE -10)

\* C27: the cache of normalizeString never holds more than 1000 entries.
C27_CacheBounded == Len(normalizeCache) <= 1000

\* the least number of insertions, deletions and substitutions of single
\* characters that turn a into b
RECURSIVE editDistance(_, _)
editDistance(a, b) ==
    IF a = <<>> THEN Len(b)
    ELSE IF b = <<>> THEN Len(a)
    ELSE Min(Min(editDistance(Tail(a), b) + 1, editDistance(a, Tail(b)) + 1),
             editDistance(Tail(a), Tail(b)) + (IF Head(a) = Head(b) THEN 0 ELSE 1))

\* C28: calculateLevenshteinDistance returns the edit distance, the two-row
\* revision the same value as the full-matrix one; the distance is 0
\* exactly for equal strings, the length of the other string when one is
\* empty, and the same in both directions.
C28_TwoRowLevenshtein ==
    Called("calculateLevenshteinDistance")
    => LET a == stringCall.args[1]
           b == stringCall.args[2]
           distance == stringCall.result
       IN  /\ distance = editDistance(a, b)
           /\ calculateLevenshteinDistance_v2(a, b) = calculateLevenshteinDistance(a, b)
           /\ distance = 0 <=> a = b
           /\ a = <<>> => distance = Len(b)
           /\ b = <<>> => distance = Len(a)
           /\ calculateLevenshteinDistance_v2(b, a) = calculateLevenshteinDistance_v2(a, b)
           /\ calculateLevenshteinDistance(b, a) = calculateLevenshteinDistance(a, b)
C28_Witness ==
    /\ Called("calculateLevenshteinDistance")
    /\ stringCall.engine = "v2"
    /\ Len(stringCall.args[1]) = 3
    /\ Len(stringCall.args[2]) = 2
    /\ stringCall.result = 2
    /\ \E i \in 1..3 : stringCall.args[1][i] = stringCall.args[2][1]
    /\ C28_TwoRowLevenshtein

=============================================================================
